---------------------------- MODULE Spec2Model ----------------------------
(***************************************************************************)
(* Journal-entry testing tool (src/JETO.py): the Streamlit session state,  *)
(* the column mapping / type conversion, the trial-balance completeness    *)
(* check that gates the high-risk rules, and the rule evaluator.           *)
(*                                                                         *)
(* Amounts are fixed-point integers in thousandths of a currency unit      *)
(* (Milli per unit); dates are day numbers counted from 2023-01-01, which  *)
(* is a Sunday.  A cell of a data frame is a record [k, v]: k tells a      *)
(* value from a missing one (NaN / NaT) and from unparsed text.            *)
(***************************************************************************)
EXTENDS Integers, Sequences, FiniteSets, TLC

VARIABLES
    df,                          \* st.session_state.df: the raw ledger upload
    processed_df,                \* the renamed and converted ledger
    trial_balance,               \* the uploaded trial balance
    completeness_check_results,  \* merged reconciliation frame
    completeness_check_passed,   \* the gate
    high_risk_entries,           \* flat flagged frame (pd.concat of the rules' rows)
    flagged_entries_by_category, \* dict category -> frame, in insertion order
    criteria,                    \* the rule check boxes and their parameters
    date_compare_raises,         \* does Series[datetime64] > datetime.date raise in this build
    notices,                     \* st.warning / st.error / st.success of the last rerun
    offset_scan                  \* the offset matcher's scan: rows, position, pending maps, outcome

vars == << df, processed_df, trial_balance, completeness_check_results,
           completeness_check_passed, high_risk_entries,
           flagged_entries_by_category, criteria, date_compare_raises, notices,
           offset_scan >>

-----------------------------------------------------------------------------
(* Bounds of the model *)

MaxRows == 2

MaxTBRows == 2

MaxEnabled == 2

(* Program constants *)

Milli == 1000

Tolerance == 5000

-----------------------------------------------------------------------------
(* Cells and frames *)

Num(n) == [k |-> "num", v |-> n]

NaN == [k |-> "nan", v |-> 0]

Txt(n) == [k |-> "txt", v |-> n]

IsNum(c) == c.k = "num"

Str(s) == [k |-> "str", v |-> s]

NoUser == [k |-> "nan", v |-> ""]

NoText == [k |-> "nan", v |-> <<>>]

NoneDF == [none |-> TRUE, cols |-> {}, rows |-> <<>>]

DataFrame(cols, rows) == [none |-> FALSE, cols |-> cols, rows |-> rows]

Empty(d) == d.rows = <<>>

Abs(x) == IF x < 0 THEN -x ELSE x

Max2(a, b) == IF a >= b THEN a ELSE b

Range(s) == {s[i] : i \in 1..Len(s)}

RECURSIVE SeqsUpTo(_, _)
SeqsUpTo(S, n) ==
    IF n = 0 THEN {<<>>}
    ELSE LET shorter == SeqsUpTo(S, n - 1)
         IN shorter \cup {Append(q, x) : q \in {p \in shorter : Len(p) = n - 1}, x \in S}

Concat(a, b) == DataFrame(a.cols \cup b.cols, a.rows \o b.rows)

-----------------------------------------------------------------------------
(* Fields, columns and the normalizer *)

required_fields ==
    << "Transaction ID", "Date", "Debit Amount (Dr)", "Credit Amount (Cr)",
       "Account Number" >>

optional_fields == << "Posting Date", "Entry Description", "Created By" >>

all_fields == required_fields \o optional_fields

RawCols == {"txn", "date", "dr", "cr", "acct", "user", "desc"}

to_numeric(c) == IF c.k = "num" THEN c ELSE NaN

to_datetime(c) == IF c.k = "num" THEN c ELSE NaN

convert_data_types(d) ==
    LET conv(col, c) ==
            IF col \in {"Debit Amount (Dr)", "Credit Amount (Cr)"} THEN to_numeric(c)
            ELSE IF col = "Date" THEN to_datetime(c)
            ELSE c
    IN DataFrame(d.cols,
                 [i \in 1..Len(d.rows) |->
                     [idx |-> d.rows[i].idx,
                      cells |-> [col \in d.cols |-> conv(col, d.rows[i].cells[col])]]])

\* df.rename(columns={v: k for k, v in column_mapping.items() if v != ""}):
\* a later field of all_fields mapped to the same source column wins.
rename(d, mapping) ==
    LET fieldsOf(c) == {i \in 1..Len(all_fields) : mapping[all_fields[i]] = c}
        last(c) == CHOOSE i \in fieldsOf(c) : \A j \in fieldsOf(c) : j <= i
        newName(c) == IF fieldsOf(c) = {} THEN c ELSE all_fields[last(c)]
        newCols == {newName(c) : c \in d.cols}
        oldName(n) == CHOOSE c \in d.cols : newName(c) = n
    IN DataFrame(newCols,
                 [i \in 1..Len(d.rows) |->
                     [idx |-> d.rows[i].idx,
                      cells |-> [n \in newCols |-> d.rows[i].cells[oldName(n)]]]])

missing_fields(mapping) ==
    {required_fields[i] : i \in {j \in 1..Len(required_fields) :
                                    mapping[required_fields[j]] = ""}}

-----------------------------------------------------------------------------
(* The session: one record per state, so that a handler is an operator     *)
(* from the session it finds to the session it leaves.                     *)

Session ==
    [df |-> df, processed_df |-> processed_df, trial_balance |-> trial_balance,
     completeness_check_results |-> completeness_check_results,
     completeness_check_passed |-> completeness_check_passed,
     high_risk_entries |-> high_risk_entries,
     flagged_entries_by_category |-> flagged_entries_by_category,
     criteria |-> criteria, date_compare_raises |-> date_compare_raises,
     notices |-> notices, offset_scan |-> offset_scan]

Become(s) ==
    /\ df' = s.df
    /\ processed_df' = s.processed_df
    /\ trial_balance' = s.trial_balance
    /\ completeness_check_results' = s.completeness_check_results
    /\ completeness_check_passed' = s.completeness_check_passed
    /\ high_risk_entries' = s.high_risk_entries
    /\ flagged_entries_by_category' = s.flagged_entries_by_category
    /\ criteria' = s.criteria
    /\ date_compare_raises' = s.date_compare_raises
    /\ notices' = s.notices
    /\ offset_scan' = s.offset_scan

-----------------------------------------------------------------------------
(* Completeness check *)

\* a sum that forgets the grouping by account
RECURSIVE SumColumnAnyAccount(_, _, _)
SumColumnAnyAccount(rows, col, acct) ==
    IF rows = <<>> THEN 0
    ELSE LET c == Head(rows).cells
             this == IF IsNum(c[col]) THEN c[col].v ELSE 0
         IN this + SumColumnAnyAccount(Tail(rows), col, acct)

\* groupby("Account Number").agg(sum): the sum skips NaN, an all-NaN group sums to 0
RECURSIVE SumColumn(_, _, _)
SumColumn(rows, col, acct) ==
    IF rows = <<>> THEN 0
    ELSE LET c == Head(rows).cells
             this == IF c["Account Number"] = acct /\ IsNum(c[col]) THEN c[col].v ELSE 0
         IN this + SumColumn(Tail(rows), col, acct)

LedgerAccounts(rows) == {rows[i].cells["Account Number"] : i \in 1..Len(rows)}

\* pd.merge(trial_balance, gl_summary, how="left") and the fillna(0) after it
MergedRow(tb, rows) ==
    LET present == tb.Account_Number \in LedgerAccounts(rows)
        debits == IF present THEN SumColumn(rows, "Debit Amount (Dr)", tb.Account_Number) ELSE 0
        credits == IF present THEN SumColumn(rows, "Credit Amount (Cr)", tb.Account_Number) ELSE 0
        expected == tb.Opening_Balance + debits - credits
    IN [Account_Number |-> tb.Account_Number,
        Opening_Balance |-> tb.Opening_Balance,
        Ending_Balance |-> tb.Ending_Balance,
        Total_Debits |-> debits,
        Total_Credits |-> credits,
        Expected_Ending_Balance |-> expected,
        Discrepancy |-> expected - tb.Ending_Balance]

RECURSIVE MaxAbsDiscrepancy(_)
MaxAbsDiscrepancy(rows) ==
    IF Len(rows) = 1 THEN Abs(rows[1].Discrepancy)
    ELSE Max2(Abs(Head(rows).Discrepancy), MaxAbsDiscrepancy(Tail(rows)))

GatePassesStrict(max_discrepancy) == max_discrepancy < Tolerance

GatePasses(max_discrepancy) == max_discrepancy <= Tolerance

ReconColumns ==
    {"Account Number", "Opening Balance", "Ending Balance", "Total_Debits",
     "Total_Credits", "Expected_Ending_Balance", "Discrepancy"}

\* a check that sets the flag and does not keep the merged frame
perform_completeness_check_unstored(s) ==
    IF s.processed_df.none \/ Empty(s.processed_df)
    THEN [s EXCEPT !.notices = <<"warning: no GL data to test">>]
    ELSE IF s.trial_balance.none \/ Empty(s.trial_balance)
    THEN [s EXCEPT !.notices = <<"warning: no trial balance data to test">>]
    ELSE IF ~({"Account Number", "Debit Amount (Dr)", "Credit Amount (Cr)"}
                 \subseteq s.processed_df.cols)
    THEN [s EXCEPT !.notices = <<"error: completeness check">>]
    ELSE
      LET tbrows == s.trial_balance.rows
          merged == [i \in 1..Len(tbrows) |-> MergedRow(tbrows[i], s.processed_df.rows)]
          max_discrepancy == MaxAbsDiscrepancy(merged)
          passed == GatePasses(max_discrepancy)
          flaggedAccounts == {i \in 1..Len(merged) : Abs(merged[i].Discrepancy) * 100 > Milli}
      IN [s EXCEPT
            !.completeness_check_passed = passed,
            !.notices =
                << IF passed THEN "success: completeness check passed"
                   ELSE "warning: completeness check failed",
                   IF flaggedAccounts # {} THEN "warning: accounts with discrepancies"
                   ELSE "success: no discrepancies found" >>]

perform_completeness_check(s) ==
    IF s.processed_df.none \/ Empty(s.processed_df)
    THEN [s EXCEPT !.notices = <<"warning: no GL data to test">>]
    ELSE IF s.trial_balance.none \/ Empty(s.trial_balance)
    THEN [s EXCEPT !.notices = <<"warning: no trial balance data to test">>]
    ELSE IF ~({"Account Number", "Debit Amount (Dr)", "Credit Amount (Cr)"}
                 \subseteq s.processed_df.cols)
    THEN [s EXCEPT !.notices = <<"error: completeness check">>]
    ELSE
      LET tbrows == s.trial_balance.rows
          merged == [i \in 1..Len(tbrows) |-> MergedRow(tbrows[i], s.processed_df.rows)]
          max_discrepancy == MaxAbsDiscrepancy(merged)
          passed == GatePasses(max_discrepancy)
          flaggedAccounts == {i \in 1..Len(merged) : Abs(merged[i].Discrepancy) * 100 > Milli}
      IN [s EXCEPT
            !.completeness_check_results = DataFrame(ReconColumns, merged),
            !.completeness_check_passed = passed,
            !.notices =
                << IF passed THEN "success: completeness check passed"
                   ELSE "warning: completeness check failed",
                   IF flaggedAccounts # {} THEN "warning: accounts with discrepancies"
                   ELSE "success: no discrepancies found" >>]

-----------------------------------------------------------------------------
(* Rule predicates *)

\* Python's float %: the result takes the sign of the divisor (b # 0)
PyMod(a, b) == IF b > 0 THEN a % b ELSE -((-a) % (-b))

\* math.isclose(a, b, rel_tol=1e-6), abs_tol = 0: |a - b| <= 1e-6 * max(|a|, |b|)
IsClose(a, b) == Abs(a - b) <= Max2(Abs(a), Abs(b)) \div 1000000

\* is_rounded for a threshold other than 0 (0 raises ZeroDivisionError, see RoundedRaises)
is_rounded(value, threshold) ==
    IF ~IsNum(value) THEN FALSE
    ELSE IF value.v = 0 THEN FALSE
    ELSE \/ PyMod(value.v, threshold) = 0
         \/ IsClose(PyMod(value.v, threshold), threshold)

\* round(value, 0): to the nearest whole unit, a tie to the even one
RoundUnits(v) ==
    LET q == v \div Milli
        r == v % Milli
    IN IF 2 * r < Milli THEN q * Milli
       ELSE IF 2 * r > Milli THEN (q + 1) * Milli
       ELSE IF q % 2 = 0 THEN q * Milli ELSE (q + 1) * Milli

\* abs(value - round(value, 0)) >= 0.999 and abs(value - round(value, 0)) < 1.0
is_99999(value) ==
    IF ~IsNum(value) THEN FALSE
    ELSE LET d == Abs(value.v - RoundUnits(value.v))
         IN d >= 999 /\ d < Milli

Lower(ch) ==
    CASE ch = "A" -> "a" [] ch = "D" -> "d" [] ch = "J" -> "j" [] ch = "S" -> "s"
      [] OTHER -> ch

LowerAll(str) == [i \in 1..Len(str) |-> Lower(str[i])]

\* Series.str.contains("|".join(keywords), case=False, na=False)
Contains(text, keywords) ==
    \E n \in 1..Len(keywords) :
        LET kw == LowerAll(keywords[n])
            t == LowerAll(text)
        IN \E i \in 1..(Len(t) - Len(kw) + 1) : SubSeq(t, i, i + Len(kw) - 1) = kw

CountAccount(rows, acct) ==
    Cardinality({i \in 1..Len(rows) : rows[i].cells["Account Number"] = acct})

-----------------------------------------------------------------------------
(* The rule evaluator.  A rule maps the session to the session it leaves   *)
(* and says how it ended: "next" (fall through to the next rule), "return" *)
(* (the function returns) or "raise" (an exception reaches the handler of  *)
(* the enclosing try).                                                     *)

Rows(s) == s.processed_df.rows

\* processed_df[mask]: the rows the mask selects, in the order of the frame
Select(s, matching) ==
    DataFrame(s.processed_df.cols, SelectSeq(Rows(s), LAMBDA row : row \in matching))

Warn(s, text) == [s EXCEPT !.notices = Append(@, text)]

\* flagged_entries_by_category[category] = entries
SetCategory(cats, category, entries) ==
    IF \E i \in 1..Len(cats) : cats[i].category = category
    THEN [i \in 1..Len(cats) |->
            IF cats[i].category = category
            THEN [category |-> category, entries |-> entries] ELSE cats[i]]
    ELSE Append(cats, [category |-> category, entries |-> entries])

\* a rule that files its rows under the category and forgets the flat frame
FlagCategoryOnly(s, category, entries) ==
    [s EXCEPT !.flagged_entries_by_category = SetCategory(@, category, entries)]

\* high_risk_entries = pd.concat([high_risk_entries, entries]);
\* flagged_entries_by_category[category] = entries
Flag(s, category, entries) ==
    [s EXCEPT
       !.high_risk_entries = Concat(@, entries),
       !.flagged_entries_by_category = SetCategory(@, category, entries)]

Next_(s) == [s |-> s, status |-> "next"]

Return_(s) == [s |-> s, status |-> "return"]

Raise_(s) == [s |-> s, status |-> "raise"]

HasCols(s, cols) == cols \subseteq s.processed_df.cols

AmountCols == {"Debit Amount (Dr)", "Credit Amount (Cr)"}

IsHoliday(s, row) ==
    /\ IsNum(row.cells["Date"])
    /\ row.cells["Date"].v \in Range(s.criteria.public_holidays)

PublicHolidaysRule(s) ==
    IF ~s.criteria.public_holidays_var THEN Next_(s)
    ELSE IF "Date" \in s.processed_df.cols
    THEN LET matching == {row \in Range(Rows(s)) : IsHoliday(s, row)}
         IN Next_(Flag(s, "Public Holidays", Select(s, matching)))
    ELSE Return_(Warn(s, "error: column 'Date' not found"))

\* value % 0 raises ZeroDivisionError for every value that is not == 0, NaN included
RoundedRaises(s) ==
    /\ s.criteria.rounded_threshold = 0
    /\ \E i \in 1..Len(Rows(s)) : \E col \in AmountCols :
          LET c == Rows(s)[i].cells[col] IN ~(IsNum(c) /\ c.v = 0)

IsRoundedRow(s, row) ==
    \/ is_rounded(row.cells["Debit Amount (Dr)"], s.criteria.rounded_threshold)
    \/ is_rounded(row.cells["Credit Amount (Cr)"], s.criteria.rounded_threshold)

RoundedRule(s) ==
    IF ~s.criteria.rounded_var THEN Next_(s)
    ELSE IF ~HasCols(s, AmountCols) THEN Raise_(s)
    ELSE IF RoundedRaises(s) THEN Raise_(s)
    ELSE LET matching == {row \in Range(Rows(s)) : IsRoundedRow(s, row)}
         IN Next_(Flag(s, "Rounded Numbers", Select(s, matching)))

IsUnusualUser(s, row) ==
    ~(/\ row.cells["Created By"].k = "str"
      /\ row.cells["Created By"].v \in Range(s.criteria.authorized_users))

UnusualUsersRule(s) ==
    IF ~s.criteria.unusual_users_var THEN Next_(s)
    ELSE IF "Created By" \in s.processed_df.cols
    THEN IF s.criteria.authorized_users = <<>>
         THEN Next_(Warn(s, "warning: no authorized users, skipping unusual users check"))
         ELSE LET matching == {row \in Range(Rows(s)) : IsUnusualUser(s, row)}
              IN Next_(Flag(s, "Unauthorized Users", Select(s, matching)))
    ELSE Return_(Warn(s, "error: column 'Created By' not found"))

IsPostClosing(s, row) ==
    /\ IsNum(row.cells["Date"])
    /\ row.cells["Date"].v > s.criteria.closing_date.v

\* closing_date is a datetime.date (st.date_input); the Date column is datetime64
PostClosingRule(s) ==
    IF ~s.criteria.post_closing_var THEN Next_(s)
    ELSE IF "Date" \in s.processed_df.cols
    THEN IF ~IsNum(s.criteria.closing_date)
         THEN Next_(Warn(s, "warning: no closing date, skipping post-closing check"))
         ELSE IF s.date_compare_raises THEN Raise_(s)
         ELSE LET matching == {row \in Range(Rows(s)) : IsPostClosing(s, row)}
              IN Next_(Flag(s, "Post-Closing Entries", Select(s, matching)))
    ELSE Return_(Warn(s, "error: column 'Date' not found"))

BelowThreshold(value, threshold) ==
    IsNum(value) /\ value.v * 10 >= threshold * 9 /\ value.v < threshold

IsBelowThresholdRow(s, row) ==
    \/ BelowThreshold(row.cells["Debit Amount (Dr)"], s.criteria.auth_threshold)
    \/ BelowThreshold(row.cells["Credit Amount (Cr)"], s.criteria.auth_threshold)

AuthThresholdRule(s) ==
    IF ~s.criteria.auth_threshold_var THEN Next_(s)
    ELSE IF ~HasCols(s, AmountCols) THEN Raise_(s)
    ELSE LET matching == {row \in Range(Rows(s)) : IsBelowThresholdRow(s, row)}
         IN Next_(Flag(s, "Below Authorization Threshold", Select(s, matching)))

IsNinePatternRow(row) ==
    \/ is_99999(row.cells["Debit Amount (Dr)"])
    \/ is_99999(row.cells["Credit Amount (Cr)"])

NinePatternRule(s) ==
    IF ~s.criteria.nine_pattern_var THEN Next_(s)
    ELSE IF ~HasCols(s, AmountCols) THEN Raise_(s)
    ELSE LET matching == {row \in Range(Rows(s)) : IsNinePatternRow(row)}
         IN Next_(Flag(s, "99999 Pattern", Select(s, matching)))

\* the .str accessor raises AttributeError on a column that holds no string
IsStringColumn(s, col) == \E i \in 1..Len(Rows(s)) : Rows(s)[i].cells[col].k = "str"

HasKeyword(s, row) ==
    /\ row.cells["Entry Description"].k = "str"
    /\ Contains(row.cells["Entry Description"].v, s.criteria.suspicious_keywords)

KeywordsRule(s) ==
    IF ~s.criteria.keywords_var THEN Next_(s)
    ELSE IF "Entry Description" \in s.processed_df.cols
    THEN IF s.criteria.suspicious_keywords = <<>>
         THEN Next_(Warn(s, "warning: no suspicious keywords, skipping keyword check"))
         ELSE IF ~IsStringColumn(s, "Entry Description") THEN Raise_(s)
         ELSE LET matching == {row \in Range(Rows(s)) : HasKeyword(s, row)}
              IN Next_(Flag(s, "Suspicious Keywords", Select(s, matching)))
    ELSE Return_(Warn(s, "error: column 'Entry Description' not found"))

IsSeldomlyUsed(s, row) ==
    CountAccount(Rows(s), row.cells["Account Number"])
        < s.criteria.seldomly_used_accounts_threshold

SeldomlyUsedRule(s) ==
    IF ~s.criteria.seldomly_used_accounts_var THEN Next_(s)
    ELSE IF ~HasCols(s, {"Account Number"}) THEN Raise_(s)
    ELSE LET matching == {row \in Range(Rows(s)) : IsSeldomlyUsed(s, row)}
         IN Next_(Flag(s, "Seldomly Used Accounts", Select(s, matching)))

Rule(i, s) ==
    CASE i = 1 -> PublicHolidaysRule(s)
      [] i = 2 -> RoundedRule(s)
      [] i = 3 -> UnusualUsersRule(s)
      [] i = 4 -> PostClosingRule(s)
      [] i = 5 -> AuthThresholdRule(s)
      [] i = 6 -> NinePatternRule(s)
      [] i = 7 -> KeywordsRule(s)
      [] i = 8 -> SeldomlyUsedRule(s)

\* the body of the try, line by line: the first rule that returns or raises ends it
RECURSIVE RunRules(_, _)
RunRules(s, i) ==
    IF i > 8 THEN Next_(s)
    ELSE LET r == Rule(i, s)
         IN IF r.status = "next" THEN RunRules(r.s, i + 1) ELSE r

EmptyFrame == DataFrame({}, <<>>)

\* the end of the try block and its except clause
finish_run(r) ==
    IF r.status = "raise" THEN Warn(r.s, "error: during testing")
    ELSE IF r.status = "return" THEN r.s
    ELSE IF ~Empty(r.s.high_risk_entries)
    THEN Warn(r.s, "success: found high-risk entries")
    ELSE Warn(r.s, "success: no high-risk entries found")

evaluate_rules_no_reset(s) == finish_run(RunRules([s EXCEPT !.notices = <<>>], 1))

\* the try block: both collections are reset, then the rules run in order
evaluate_rules(s) ==
    finish_run(RunRules([s EXCEPT !.high_risk_entries = EmptyFrame,
                                  !.flagged_entries_by_category = <<>>,
                                  !.notices = <<>>], 1))

perform_high_risk_test_ungated(s) ==
    IF s.processed_df.none \/ Empty(s.processed_df)
    THEN [s EXCEPT !.notices = <<"warning: no data to test">>]
    ELSE evaluate_rules(s)

perform_high_risk_test(s) ==
    IF ~s.completeness_check_passed
    THEN [s EXCEPT !.notices = <<"warning: completeness check has not passed">>]
    ELSE IF s.processed_df.none \/ Empty(s.processed_df)
    THEN [s EXCEPT !.notices = <<"warning: no data to test">>]
    ELSE evaluate_rules(s)

-----------------------------------------------------------------------------
(* The criteria widgets (main_app, shown while the gate is open) *)

InitialCriteria ==
    [public_holidays_var |-> FALSE, rounded_var |-> FALSE,
     unusual_users_var |-> FALSE, post_closing_var |-> FALSE,
     auth_threshold_var |-> FALSE, nine_pattern_var |-> FALSE,
     keywords_var |-> FALSE, seldomly_used_accounts_var |-> FALSE,
     public_holidays |-> <<>>,
     rounded_threshold |-> 100 * Milli,
     authorized_users |-> <<>>,
     closing_date |-> NaN,
     auth_threshold |-> 10000 * Milli,
     suspicious_keywords |-> <<>>,
     seldomly_used_accounts_threshold |-> 5]

\* one pd.to_datetime(line, format="%Y-%m-%d") per non-empty line of the text area
ParseHolidays(lines) ==
    LET good == SelectSeq(lines, IsNum)
    IN [i \in 1..Len(good) |-> good[i].v]

\* [user.strip() for user in text.strip().split(",") if user.strip()]
ParseUsers(items) == SelectSeq(items, LAMBDA u : u # "")

\* [keyword.strip().lower() for keyword in text.strip().split(",") if keyword.strip()]
ParseKeywords(items) ==
    LET kept == SelectSeq(items, LAMBDA kw : kw # <<>>)
    IN [i \in 1..Len(kept) |-> LowerAll(kept[i])]

\* w: the values the widgets hold in this rerun
set_criteria(s, w) ==
    LET c == s.criteria
        badLines == SelectSeq(w.holiday_lines, LAMBDA l : ~IsNum(l))
    IN [s EXCEPT
         !.criteria =
            [public_holidays_var |-> w.public_holidays_var,
             rounded_var |-> w.rounded_var,
             unusual_users_var |-> w.unusual_users_var,
             post_closing_var |-> w.post_closing_var,
             auth_threshold_var |-> w.auth_threshold_var,
             nine_pattern_var |-> w.nine_pattern_var,
             keywords_var |-> w.keywords_var,
             seldomly_used_accounts_var |-> w.seldomly_used_accounts_var,
             public_holidays |->
                 IF w.public_holidays_var THEN ParseHolidays(w.holiday_lines)
                 ELSE c.public_holidays,
             rounded_threshold |->
                 IF w.rounded_var THEN w.rounded_threshold ELSE c.rounded_threshold,
             authorized_users |->
                 IF w.unusual_users_var THEN ParseUsers(w.users) ELSE c.authorized_users,
             closing_date |->
                 IF w.post_closing_var THEN Num(w.closing_date) ELSE c.closing_date,
             auth_threshold |->
                 IF w.auth_threshold_var THEN w.auth_threshold ELSE c.auth_threshold,
             suspicious_keywords |->
                 IF w.keywords_var THEN ParseKeywords(w.keywords)
                 ELSE c.suspicious_keywords,
             seldomly_used_accounts_threshold |->
                 IF w.seldomly_used_accounts_var THEN w.seldom_threshold
                 ELSE c.seldomly_used_accounts_threshold],
         !.notices =
            IF w.public_holidays_var
            THEN [i \in 1..Len(badLines) |-> "error: invalid date format"]
            ELSE <<>>]

-----------------------------------------------------------------------------
(* Offset matcher: one scan of the rows in input order, with one pending   *)
(* slot per (account, amount) key and side                                 *)

OffsetAccounts == {"A", "B"}

OffsetAmounts == {500 * Milli, 300 * Milli}

OffsetKeys == OffsetAccounts \X OffsetAmounts

OffsetRow(side, account, amount, date) ==
    [side |-> side, account |-> account, amount |-> amount, date |-> date]

KeyOf(row) == <<row.account, row.amount>>

\* a pending map: the index of the row stored under each key, 0 for none
NoPending == [key \in OffsetKeys |-> 0]

start_scan(rows) ==
    [rows |-> rows, pos |-> 1,
     pending_debits |-> NoPending, pending_credits |-> NoPending,
     status |-> [i \in 1..Len(rows) |-> "Unseen"],
     matches |-> <<>>, done |-> FALSE]

\* no scan under way
NoScan == [start_scan(<<>>) EXCEPT !.done = TRUE]

\* |date(debit) - date(credit)| in days, "N/A" (NaN) if either date is null
DaysBetween(a, b) == IF IsNum(a) /\ IsNum(b) THEN Num(Abs(a.v - b.v)) ELSE NaN

\* a map that keeps the row it already holds under the key
store_pending_keep_first(pending, key, i) ==
    IF pending[key] # 0 THEN pending ELSE [pending EXCEPT ![key] = i]

\* the map holds one entry per key: the row stored later overwrites
store_pending(pending, key, i) == [pending EXCEPT ![key] = i]

\* the row at pos: it consumes the pending row of the other side under its
\* key, or is stored as pending under its key
scan_row(m) ==
    LET i == m.pos
        row == m.rows[i]
        key == KeyOf(row)
        isDebit == row.side = "debit"
        others == IF isDebit THEN m.pending_credits ELSE m.pending_debits
        mine == IF isDebit THEN m.pending_debits ELSE m.pending_credits
        j == others[key]
    IN IF j # 0
       THEN LET consumed == [others EXCEPT ![key] = 0]
            IN [m EXCEPT
                  !.pos = i + 1,
                  !.status = [@ EXCEPT ![i] = "Matched", ![j] = "Matched"],
                  !.matches = Append(@,
                      [debit |-> IF isDebit THEN i ELSE j,
                       credit |-> IF isDebit THEN j ELSE i,
                       days |-> DaysBetween(row.date, m.rows[j].date)]),
                  !.pending_credits = IF isDebit THEN consumed ELSE @,
                  !.pending_debits = IF isDebit THEN @ ELSE consumed]
       ELSE LET stored == store_pending(mine, key, i)
            IN [m EXCEPT
                  !.pos = i + 1,
                  !.status = [@ EXCEPT ![i] = "Pending"],
                  !.pending_debits = IF isDebit THEN stored ELSE @,
                  !.pending_credits = IF isDebit THEN @ ELSE stored]

\* the end of the scan: every row still pending is Unmatched ("No offset")
finish_scan(m) ==
    [m EXCEPT
       !.status = [i \in 1..Len(m.rows) |->
                      IF m.status[i] = "Pending" THEN "Unmatched" ELSE m.status[i]],
       !.done = TRUE]

-----------------------------------------------------------------------------
(* Uploads and the column mapping (main_app) *)

\* pd.read_csv: the rows get the index 0, 1, ...
read_csv(cols, contents) ==
    DataFrame(cols, [i \in 1..Len(contents) |-> [idx |-> i - 1, cells |-> contents[i]]])

upload_ledger(s, contents) ==
    [s EXCEPT !.df = read_csv(RawCols, contents),
              !.notices = <<"success: GL dump imported">>]

TBCols == {"Account Number", "Opening Balance", "Ending Balance"}

upload_trial_balance(s, tbrows) ==
    [s EXCEPT !.trial_balance = DataFrame(TBCols, tbrows),
              !.notices = <<"success: trial balance imported">>]

\* a mapping that reports the missing fields and renames what is mapped all the same
confirm_mapping_partial(s, mapping) ==
    [s EXCEPT !.processed_df = convert_data_types(rename(s.df, mapping)),
              !.notices = IF missing_fields(mapping) # {}
                          THEN <<"error: missing required fields">>
                          ELSE <<"success: columns mapped">>]

confirm_mapping(s, mapping) ==
    IF missing_fields(mapping) # {}
    THEN [s EXCEPT !.notices = <<"error: missing required fields">>]
    ELSE [s EXCEPT !.processed_df = convert_data_types(rename(s.df, mapping)),
                   !.notices = <<"success: columns mapped">>]

InitialSession(raises) ==
    [df |-> NoneDF, processed_df |-> NoneDF, trial_balance |-> NoneDF,
     completeness_check_results |-> NoneDF,
     completeness_check_passed |-> FALSE,
     high_risk_entries |-> NoneDF,
     flagged_entries_by_category |-> <<>>,
     criteria |-> InitialCriteria,
     date_compare_raises |-> raises,
     notices |-> <<>>,
     offset_scan |-> NoScan]

-----------------------------------------------------------------------------
(* Inputs: ledger files, mappings, trial balances, widget settings *)

Chars(a, b, c) == <<a, b, c>>

RawRow(txn, date, dr, cr, acct, user, desc) ==
    [c \in RawCols |->
        CASE c = "txn" -> Num(txn) [] c = "date" -> date [] c = "dr" -> dr
          [] c = "cr" -> cr [] c = "acct" -> acct [] c = "user" -> user
          [] c = "desc" -> desc]

\* 2023-01-01 is day 0; day 370 is 2024-01-06
HolidayRow ==
    RawRow(1, Num(0), Num(200 * Milli), NaN, "A", Str("alice"), Str(Chars("A", "d", "j")))

LateRow ==
    RawRow(2, Num(370), Txt(0), Num(9550 * Milli), "A", Str("bob"), NoText)

RuleRowChoices == {HolidayRow, LateRow}

RuleFiles == SeqsUpTo(RuleRowChoices, MaxRows) \ {<<>>}

Mapping(txn, date, dr, cr, acct, posting, desc, user) ==
    [f \in Range(all_fields) |->
        CASE f = "Transaction ID" -> txn [] f = "Date" -> date
          [] f = "Debit Amount (Dr)" -> dr [] f = "Credit Amount (Cr)" -> cr
          [] f = "Account Number" -> acct [] f = "Posting Date" -> posting
          [] f = "Entry Description" -> desc [] f = "Created By" -> user]

FullMapping == Mapping("txn", "date", "dr", "cr", "acct", "", "desc", "user")

\* every required field mapped; an optional field unmapped, or Posting Date
\* mapped to the column Date is mapped to (the rename then drops Date)
ValidMappings ==
    { FullMapping,
      Mapping("txn", "date", "dr", "cr", "acct", "", "desc", ""),
      Mapping("txn", "date", "dr", "cr", "acct", "", "", "user"),
      Mapping("txn", "date", "dr", "cr", "acct", "date", "desc", "user") }

TBRow(acct, opening, ending) ==
    [Account_Number |-> acct, Opening_Balance |-> opening, Ending_Balance |-> ending]

\* a trial balance that the ledger explains exactly: opening 0, ending = debits - credits
BalancedTB(contents) ==
    LET rows == read_csv(RawCols, contents)
        p == convert_data_types(rename(rows, FullMapping)).rows
        accts == SelectSeq(<<"A", "B">>, LAMBDA a : a \in LedgerAccounts(p))
    IN [i \in 1..Len(accts) |->
          TBRow(accts[i], 0,
                SumColumn(p, "Debit Amount (Dr)", accts[i])
                  - SumColumn(p, "Credit Amount (Cr)", accts[i]))]

RuleNames ==
    {"public_holidays", "rounded", "unusual_users", "post_closing",
     "auth_threshold", "nine_pattern", "keywords", "seldomly_used_accounts"}

\* the text area's preset: a line of help text, then 2023-01-01 and 2023-12-25
DefaultHolidayLines == <<Txt(0), Num(0), Num(358)>>

Widgets(enabled, threshold, users, keywords) ==
    [public_holidays_var |-> "public_holidays" \in enabled,
     rounded_var |-> "rounded" \in enabled,
     unusual_users_var |-> "unusual_users" \in enabled,
     post_closing_var |-> "post_closing" \in enabled,
     auth_threshold_var |-> "auth_threshold" \in enabled,
     nine_pattern_var |-> "nine_pattern" \in enabled,
     keywords_var |-> "keywords" \in enabled,
     seldomly_used_accounts_var |-> "seldomly_used_accounts" \in enabled,
     holiday_lines |-> DefaultHolidayLines,
     rounded_threshold |-> threshold,
     users |-> users,
     closing_date |-> 364,
     auth_threshold |-> 10000 * Milli,
     keywords |-> keywords,
     seldom_threshold |-> 2]

ThresholdChoices == {100 * Milli, 0}

UserChoices == {<<"">>, <<"alice", "">>}

KeywordChoices == {<< <<>> >>, << Chars("A", "D", "J") >>}

\* every box ticked, the user list left empty or filled in
AllTicked ==
    { Widgets(RuleNames, 100 * Milli, u, << Chars("A", "D", "J") >>) : u \in UserChoices }

\* at most MaxEnabled boxes ticked, or all of them; a parameter varies only
\* where its box is ticked
Configs ==
    AllTicked \cup
    UNION { { Widgets(e, t, u, kw) :
                t \in IF "rounded" \in e THEN ThresholdChoices ELSE {100 * Milli},
                u \in IF "unusual_users" \in e THEN UserChoices ELSE {<<"">>},
                kw \in IF "keywords" \in e THEN KeywordChoices ELSE {<< <<>> >>} } :
            e \in {x \in SUBSET RuleNames : Cardinality(x) <= MaxEnabled} }

\* ledgers for the reconciliation: rows of account A with a debit of 50 and a
\* credit of 20, rows of account B with a debit of 7 and an unparsable credit
ReconRowChoices ==
    { RawRow(1, Num(0), Num(50 * Milli), Num(20 * Milli), "A", NoUser, NoText),
      RawRow(2, Txt(0), Num(7 * Milli), Txt(0), "B", NoUser, NoText) }

ReconFiles == SeqsUpTo(ReconRowChoices, MaxRows)

\* account A opens at 100 and closes around 130; C has no ledger row
TBRowChoices ==
    { TBRow("A", 100 * Milli, e * Milli) : e \in {120, 125, 130, 135} }
      \cup { TBRow("B", 0, 7 * Milli), TBRow("C", 10 * Milli, 10 * Milli),
             TBRow("C", 10 * Milli, 16 * Milli) }

ReconTBs == SeqsUpTo(TBRowChoices, MaxTBRows)

(* The small inputs of the whole-application specification *)

LifecycleFiles == { <<>>, <<HolidayRow, LateRow>> }

LifecycleMappings ==
    { FullMapping,
      Mapping("txn", "date", "dr", "cr", "acct", "", "desc", ""),
      Mapping("txn", "", "dr", "cr", "acct", "", "desc", "user") }

LifecycleTBs ==
    { BalancedTB(<<HolidayRow, LateRow>>), <<TBRow("A", 0, 0), TBRow("B", 0, 0)>> }

LifecycleConfigs ==
    { Widgets({"rounded", "seldomly_used_accounts"}, 100 * Milli, <<"">>, << <<>> >>),
      Widgets({"unusual_users", "nine_pattern"}, 100 * Milli, <<"">>, << <<>> >>) }

-----------------------------------------------------------------------------
(* Actions: one per rerun of the script with one widget changed or one     *)
(* button pressed                                                          *)

UploadLedger(files) ==
    \E contents \in files : \E s \in {upload_ledger(Session, contents)} : Become(s)

UploadTrialBalance(tbs) ==
    \E tbrows \in tbs : \E s \in {upload_trial_balance(Session, tbrows)} : Become(s)

\* the mapping select boxes and the button exist only once a ledger is loaded
ConfirmMapping(mappings) ==
    /\ ~df.none
    /\ \E mapping \in mappings : \E s \in {confirm_mapping(Session, mapping)} : Become(s)

RunCompletenessCheck == \E s \in {perform_completeness_check(Session)} : Become(s)

\* the criteria widgets are drawn only while the gate is open
SetCriteria(configs) ==
    /\ completeness_check_passed
    /\ \E w \in configs : \E s \in {set_criteria(Session, w)} : Become(s)

\* perform_high_risk_test() on the session as it stands.  main_app calls it from
\* the "Run High-Risk Test" button, which it draws only while the gate is open;
\* with the gate closed this is the function called on its own.
RunHighRiskTest == \E s \in {perform_high_risk_test(Session)} : Become(s)

-----------------------------------------------------------------------------
(* The application *)

StartIn(s) ==
    /\ df = s.df
    /\ processed_df = s.processed_df
    /\ trial_balance = s.trial_balance
    /\ completeness_check_results = s.completeness_check_results
    /\ completeness_check_passed = s.completeness_check_passed
    /\ high_risk_entries = s.high_risk_entries
    /\ flagged_entries_by_category = s.flagged_entries_by_category
    /\ criteria = s.criteria
    /\ date_compare_raises = s.date_compare_raises
    /\ notices = s.notices
    /\ offset_scan = s.offset_scan

Init == \E raises \in BOOLEAN : \E s \in {InitialSession(raises)} : StartIn(s)

Next ==
    \/ UploadLedger(LifecycleFiles)
    \/ UploadTrialBalance(LifecycleTBs)
    \/ ConfirmMapping(LifecycleMappings)
    \/ RunCompletenessCheck
    \/ SetCriteria(LifecycleConfigs)
    \/ RunHighRiskTest

Spec == Init /\ [][Next]_vars

-----------------------------------------------------------------------------
(* Loaded data: the session after the imports, then checks and test runs   *)

\* a ledger uploaded and mapped, its balanced trial balance uploaded and
\* checked, and the criteria set (both builds where the post-closing rule is on)
LoadedForRules(contents, mapping, w, raises) ==
    LET s1 == upload_ledger(InitialSession(raises), contents)
        s2 == confirm_mapping(s1, mapping)
        s3 == upload_trial_balance(s2, BalancedTB(contents))
        s4 == perform_completeness_check(s3)
    IN set_criteria(s4, w)

\* a ledger uploaded and mapped and a trial balance uploaded; with prior, after
\* an earlier check against the balanced trial balance
LoadedForRecon(contents, tbrows, prior) ==
    LET s1 == upload_ledger(InitialSession(TRUE), contents)
        s2 == confirm_mapping(s1, FullMapping)
        s3 == IF prior
              THEN perform_completeness_check(upload_trial_balance(s2, BalancedTB(contents)))
              ELSE s2
    IN upload_trial_balance(s3, tbrows)

InitRules ==
    \E contents \in RuleFiles, mapping \in ValidMappings, w \in Configs,
       raises \in BOOLEAN :
        /\ (raises \/ w.post_closing_var)
        /\ \E s \in {LoadedForRules(contents, mapping, w, raises)} : StartIn(s)

InitRecon ==
    \E contents \in ReconFiles, tbrows \in ReconTBs, prior \in BOOLEAN :
        \E s \in {LoadedForRecon(contents, tbrows, prior)} : StartIn(s)

InitBatch == InitRules \/ InitRecon

NextBatch == RunCompletenessCheck \/ RunHighRiskTest

SpecBatch == InitBatch /\ [][NextBatch]_vars

-----------------------------------------------------------------------------
(* What the last rerun did, read from the messages it showed *)

LastNotice == IF notices = <<>> THEN "" ELSE notices[Len(notices)]

FirstNotice == IF notices = <<>> THEN "" ELSE notices[1]

GateClosedWarning == <<"warning: completeness check has not passed">>

\* the completeness check ran to its end
CheckCompleted ==
    FirstNotice \in {"success: completeness check passed",
                     "warning: completeness check failed"}

\* the completeness check was the last rerun
CheckRan ==
    \/ CheckCompleted
    \/ FirstNotice \in {"warning: no GL data to test",
                        "warning: no trial balance data to test",
                        "error: completeness check"}

\* the rule evaluator reached the end of its try block
RunCompleted ==
    LastNotice \in {"success: found high-risk entries",
                    "success: no high-risk entries found"}

\* the rule evaluator entered its try block in the last rerun
RulesRan ==
    \/ RunCompleted
    \/ LastNotice \in {"error: during testing", "error: column 'Date' not found",
                       "error: column 'Created By' not found",
                       "error: column 'Entry Description' not found"}

Categories ==
    {flagged_entries_by_category[i].category :
        i \in 1..Len(flagged_entries_by_category)}

EntriesOf(category) ==
    LET i == CHOOSE j \in 1..Len(flagged_entries_by_category) :
                 flagged_entries_by_category[j].category = category
    IN flagged_entries_by_category[i].entries

-----------------------------------------------------------------------------
(* C1: perform_high_risk_test invoked while completeness_check_passed is   *)
(* false evaluates no rule and raises nothing: it shows the gate warning   *)
(* and leaves high_risk_entries, flagged_entries_by_category and           *)
(* completeness_check_results (and the rest of the session) as they were.  *)
GateBlocksRuleEvaluation ==
    [][ (RunHighRiskTest /\ ~completeness_check_passed) =>
          /\ high_risk_entries' = high_risk_entries
          /\ flagged_entries_by_category' = flagged_entries_by_category
          /\ completeness_check_results' = completeness_check_results
          /\ processed_df' = processed_df
          /\ ~completeness_check_passed'
          /\ notices' = GateClosedWarning ]_vars

\* the test was invoked with the gate closed again, after a run that had flagged
\* entries: the bundle and the discrepancy report are still there
GateBlockedWitness ==
    /\ notices = GateClosedWarning
    /\ ~completeness_check_passed
    /\ ~high_risk_entries.none /\ ~Empty(high_risk_entries)
    /\ flagged_entries_by_category # <<>>
    /\ ~completeness_check_results.none

(* C7: Confirm Mapping with a required field unmapped reports the error    *)
(* and leaves processed_df exactly as it was (None if never mapped): no    *)
(* rename and no type conversion takes place.                              *)
MissingRequiredFieldKeepsDataset ==
    [][ \A mapping \in LifecycleMappings :
          ( /\ \E i \in 1..Len(required_fields) : mapping[required_fields[i]] = ""
            /\ ~df.none
            /\ \E s \in {confirm_mapping(Session, mapping)} : Become(s) )
          => /\ processed_df' = processed_df
             /\ notices' = <<"error: missing required fields">> ]_vars

\* the error was reported while an earlier dataset was in place, and that
\* dataset is still the converted one
MissingRequiredFieldWitness ==
    /\ notices = <<"error: missing required fields">>
    /\ ~processed_df.none /\ ~Empty(processed_df)
    /\ ~df.none /\ Empty(df)

-----------------------------------------------------------------------------
(* C2: after perform_completeness_check completes on a non-empty ledger    *)
(* and a non-empty trial balance, completeness_check_passed is true iff    *)
(* the largest absolute discrepancy over the trial-balance accounts is at  *)
(* most 5 (a discrepancy of exactly 5 passes), whatever the flag was       *)
(* before: a later check beyond the tolerance sets it back to false.       *)
ReconRows == completeness_check_results.rows

WithinFive(i) == Abs(ReconRows[i].Discrepancy) <= 5 * Milli

PassedIffWithinTolerance ==
    /\ (CheckRan /\ ~Empty(processed_df) /\ ~Empty(trial_balance)) => CheckCompleted
    /\ CheckCompleted =>
          /\ ~completeness_check_results.none
          /\ Len(ReconRows) = Len(trial_balance.rows)
          /\ completeness_check_passed <=> \A i \in 1..Len(ReconRows) : WithinFive(i)

\* a check that passed with an account exactly 5 off and none further off
PassedAtBoundaryWitness ==
    /\ CheckCompleted
    /\ completeness_check_passed
    /\ \E i \in 1..Len(ReconRows) : Abs(ReconRows[i].Discrepancy) = 5 * Milli
    /\ \E i \in 1..Len(ReconRows) :
          /\ ReconRows[i].Opening_Balance = 100 * Milli
          /\ ReconRows[i].Total_Debits = 50 * Milli
          /\ ReconRows[i].Total_Credits = 20 * Milli

(* C3: every account of the trial balance has a reconciliation row with    *)
(* expected ending = opening + the account's ledger debits - the account's *)
(* ledger credits and discrepancy = expected ending - actual ending; an    *)
(* account without a ledger row has total debits 0 and total credits 0     *)
(* and the check still completes.                                          *)
RECURSIVE LedgerTotal(_, _, _)
LedgerTotal(n, col, acct) ==
    IF n = 0 THEN 0
    ELSE LET c == processed_df.rows[n].cells
         IN LedgerTotal(n - 1, col, acct)
              + (IF c["Account Number"] = acct /\ c[col].k = "num" THEN c[col].v ELSE 0)

HasLedgerRow(acct) ==
    \E n \in 1..Len(processed_df.rows) :
        processed_df.rows[n].cells["Account Number"] = acct

ReconRowCorrect(i) ==
    LET tb == trial_balance.rows[i]
        r == ReconRows[i]
        n == Len(processed_df.rows)
    IN /\ r.Account_Number = tb.Account_Number
       /\ r.Opening_Balance = tb.Opening_Balance
       /\ r.Ending_Balance = tb.Ending_Balance
       /\ r.Total_Debits = LedgerTotal(n, "Debit Amount (Dr)", tb.Account_Number)
       /\ r.Total_Credits = LedgerTotal(n, "Credit Amount (Cr)", tb.Account_Number)
       /\ r.Expected_Ending_Balance
            = tb.Opening_Balance + r.Total_Debits - r.Total_Credits
       /\ r.Discrepancy = r.Expected_Ending_Balance - tb.Ending_Balance
       /\ ~HasLedgerRow(tb.Account_Number) => (r.Total_Debits = 0 /\ r.Total_Credits = 0)

ReconciliationArithmetic ==
    CheckCompleted =>
        /\ Len(ReconRows) = Len(trial_balance.rows)
        /\ \A i \in 1..Len(ReconRows) : ReconRowCorrect(i)

\* a ledger with rows of two accounts, reconciled against one of them and
\* against an account that has no ledger row and closes 6 above its opening
AbsentAccountWitness ==
    /\ CheckCompleted
    /\ \E n \in 1..Len(processed_df.rows) :
          processed_df.rows[n].cells["Account Number"] = "B"
    /\ \E i \in 1..Len(ReconRows) :
          /\ ReconRows[i].Account_Number = "C"
          /\ ReconRows[i].Total_Debits = 0 /\ ReconRows[i].Total_Credits = 0
          /\ ReconRows[i].Discrepancy = -6 * Milli
    /\ \E i \in 1..Len(ReconRows) :
          /\ ReconRows[i].Account_Number = "A"
          /\ ReconRows[i].Total_Debits = 50 * Milli
          /\ ReconRows[i].Total_Credits = 20 * Milli

-----------------------------------------------------------------------------
(* The rules by their place in perform_high_risk_test, as the properties   *)
(* of the evaluator speak of them                                          *)

RuleIds == 1..8

RuleEnabled(i) ==
    CASE i = 1 -> criteria.public_holidays_var
      [] i = 2 -> criteria.rounded_var
      [] i = 3 -> criteria.unusual_users_var
      [] i = 4 -> criteria.post_closing_var
      [] i = 5 -> criteria.auth_threshold_var
      [] i = 6 -> criteria.nine_pattern_var
      [] i = 7 -> criteria.keywords_var
      [] i = 8 -> criteria.seldomly_used_accounts_var

CategoryOf(i) ==
    CASE i = 1 -> "Public Holidays"
      [] i = 2 -> "Rounded Numbers"
      [] i = 3 -> "Unauthorized Users"
      [] i = 4 -> "Post-Closing Entries"
      [] i = 5 -> "Below Authorization Threshold"
      [] i = 6 -> "99999 Pattern"
      [] i = 7 -> "Suspicious Keywords"
      [] i = 8 -> "Seldomly Used Accounts"

\* the optional column a rule reads (the required fields are always mapped)
NeededColumn(i) ==
    CASE i = 1 -> {"Date"}
      [] i = 3 -> {"Created By"}
      [] i = 4 -> {"Date"}
      [] i = 7 -> {"Entry Description"}
      [] OTHER -> {}

ColumnMissing(i) == ~(NeededColumn(i) \subseteq processed_df.cols)

\* the rule is enabled without the parameter it needs
SkippedForConfig(i) ==
    CASE i = 3 -> criteria.authorized_users = <<>>
      [] i = 4 -> ~IsNum(criteria.closing_date)
      [] i = 7 -> criteria.suspicious_keywords = <<>>
      [] OTHER -> FALSE

SkipWarning(i) ==
    CASE i = 3 -> "warning: no authorized users, skipping unusual users check"
      [] i = 4 -> "warning: no closing date, skipping post-closing check"
      [] i = 7 -> "warning: no suspicious keywords, skipping keyword check"
      [] OTHER -> ""

\* the rule's own evaluation raises (its column is there and it is not skipped)
RuleRaises(i) ==
    CASE i = 2 -> RoundedRaises(Session)
      [] i = 4 -> date_compare_raises
      [] i = 7 -> ~IsStringColumn(Session, "Entry Description")
      [] OTHER -> FALSE

Matches(i, row) ==
    CASE i = 1 -> IsHoliday(Session, row)
      [] i = 2 -> IsRoundedRow(Session, row)
      [] i = 3 -> IsUnusualUser(Session, row)
      [] i = 4 -> IsPostClosing(Session, row)
      [] i = 5 -> IsBelowThresholdRow(Session, row)
      [] i = 6 -> IsNinePatternRow(row)
      [] i = 7 -> HasKeyword(Session, row)
      [] i = 8 -> IsSeldomlyUsed(Session, row)

\* an enabled rule with its column, its parameter and an evaluation that does not raise
Evaluable(i) ==
    RuleEnabled(i) /\ ~ColumnMissing(i) /\ ~SkippedForConfig(i) /\ ~RuleRaises(i)

NoticeShown(text) == \E n \in 1..Len(notices) : notices[n] = text

Records(d) == {d.rows[n] : n \in 1..Len(d.rows)}

Listed(i, row) == CategoryOf(i) \in Categories /\ row \in Records(EntriesOf(CategoryOf(i)))

-----------------------------------------------------------------------------
(* C4: when an enabled rule lacks its column (Date, Created By or Entry    *)
(* Description), only that rule is skipped: every other enabled rule,      *)
(* those declared after it included, is evaluated and has its category in  *)
(* the bundle.                                                             *)
MissingColumnSkipsOnlyThatRule ==
    ( /\ RulesRan
      /\ LastNotice # "error: during testing"
      /\ \E i \in RuleIds : RuleEnabled(i) /\ ColumnMissing(i) )
    => \A j \in RuleIds : Evaluable(j) => CategoryOf(j) \in Categories

(* C5: when the evaluation of one enabled rule raises, the error is caught *)
(* and every remaining enabled rule is still evaluated and has its         *)
(* category in the bundle.                                                 *)
RuleErrorKeepsOtherRules ==
    ( /\ RulesRan
      /\ LastNotice = "error: during testing" )
    => \A j \in RuleIds : Evaluable(j) => CategoryOf(j) \in Categories

(* C6: a rule enabled with an empty authorized-user list, an empty keyword *)
(* list or no closing date is skipped with its warning, adds no category,  *)
(* and every other enabled rule is evaluated in the same run.              *)
ConfigSkipKeepsOtherRules ==
    RulesRan =>
      \A i \in RuleIds :
        (RuleEnabled(i) /\ ~ColumnMissing(i) /\ SkippedForConfig(i)) =>
           /\ NoticeShown(SkipWarning(i))
           /\ CategoryOf(i) \notin Categories
           /\ \A j \in RuleIds : Evaluable(j) => CategoryOf(j) \in Categories

(* C8: after a run of perform_high_risk_test that completes, the records   *)
(* of high_risk_entries are the union of the records of the categories,    *)
(* and a record is listed under a category exactly when that category's    *)
(* rule was enabled (and not skipped for want of its parameter) and        *)
(* matched the record.                                                     *)
UnionAndCategoryLaw ==
    RunCompleted =>
      /\ Records(high_risk_entries)
           = UNION {Records(EntriesOf(c)) : c \in Categories}
      /\ Categories \subseteq {CategoryOf(i) : i \in RuleIds}
      /\ \A c \in Categories : Records(EntriesOf(c)) \subseteq Records(processed_df)
      /\ \A i \in RuleIds : \A row \in Records(processed_df) :
            Listed(i, row) <=>
               (RuleEnabled(i) /\ ~SkippedForConfig(i) /\ Matches(i, row))

\* a completed run in which one record is listed under two categories and
\* another record was not matched by an enabled rule
TwoCategoriesWitness ==
    /\ RunCompleted
    /\ \E row \in Records(processed_df) : \E i, j \in RuleIds :
          i # j /\ Listed(i, row) /\ Listed(j, row)
    /\ \E row \in Records(processed_df) : \E i \in RuleIds :
          RuleEnabled(i) /\ CategoryOf(i) \in Categories /\ ~Listed(i, row)

(* C9: after a completed run every ledger record occurs at most once in    *)
(* high_risk_entries, also when several enabled rules matched it, so the   *)
(* reported number of entries counts records.                              *)
FlatCollectionDeduplicated ==
    RunCompleted =>
      \A a, b \in 1..Len(high_risk_entries.rows) :
         a # b => high_risk_entries.rows[a] # high_risk_entries.rows[b]

(* C10: perform_high_risk_test run again on the same dataset and criteria  *)
(* leaves flagged_entries_by_category and high_risk_entries identical      *)
(* (categories, records, order); perform_completeness_check run again on   *)
(* the same ledger and trial balance leaves completeness_check_results and *)
(* the flag identical.                                                     *)
RerunIsIdempotent ==
    [][ /\ (RulesRan /\ RunHighRiskTest) =>
              /\ flagged_entries_by_category' = flagged_entries_by_category
              /\ high_risk_entries' = high_risk_entries
        /\ (CheckCompleted /\ RunCompletenessCheck) =>
              /\ completeness_check_results' = completeness_check_results
              /\ completeness_check_passed' = completeness_check_passed ]_vars

\* a run that left two records in the flat frame, under two categories and
\* more than once: the run that follows it starts from this bundle
RerunWitness ==
    /\ RunCompleted
    /\ Cardinality(Records(high_risk_entries)) = 2
    /\ Len(high_risk_entries.rows) > 2
    /\ Len(flagged_entries_by_category) >= 2
    /\ ~completeness_check_results.none

-----------------------------------------------------------------------------
(* One-row ledgers: the rule predicates on single amounts and dates.       *)
(* Day 0 is Sunday 2023-01-01, so day d falls on weekday d % 7 with        *)
(* 0 = Sunday and 6 = Saturday.                                            *)

\* empty, unparsable, 0, 150, 200, -200, 999.999, 1000.50 and 9999.995
DebitChoices ==
    { NaN, Txt(0), Num(0), Num(150 * Milli), Num(200 * Milli), Num(-200 * Milli),
      Num(999999), Num(1000500), Num(9999995) }

CreditChoices == { NaN, Num(0), Num(250 * Milli) }

\* Sunday 2023-01-01 (a holiday of the preset), Tuesday 2023-01-03,
\* Saturday 2023-01-07, Monday 2023-12-25 (a holiday of the preset), no date
DateChoices == { Num(0), Num(2), Num(6), Num(358), NaN }

OneRuleWidgets(rule, threshold) == Widgets({rule}, threshold, <<"">>, << <<>> >>)

\* one box ticked: the holidays with the preset text or with the text area
\* emptied, the rounded numbers with 100 or 10000, the 99999 pattern
PredicateConfigs ==
    { OneRuleWidgets("public_holidays", 100 * Milli),
      [OneRuleWidgets("public_holidays", 100 * Milli) EXCEPT !.holiday_lines = <<>>],
      OneRuleWidgets("rounded", 100 * Milli),
      OneRuleWidgets("rounded", 10000 * Milli),
      OneRuleWidgets("nine_pattern", 100 * Milli) }

InitPredicates ==
    \E date \in DateChoices, dr \in DebitChoices, cr \in CreditChoices,
       w \in PredicateConfigs :
        \E s \in {LoadedForRules(
                     << RawRow(1, date, dr, cr, "A", Str("alice"), NoText) >>,
                     FullMapping, w, TRUE)} : StartIn(s)

NextPredicates == RunHighRiskTest

SpecPredicates == InitPredicates /\ [][NextPredicates]_vars

Amount(row, col) == row.cells[col]

(* C11: for a positive threshold T a record is in 'Rounded Numbers' iff    *)
(* its debit or its credit amount is non-null and an exact multiple of T   *)
(* (amount mod T = 0), for positive, zero and negative amounts alike.      *)
ExactMultiple(row, col) ==
    /\ IsNum(Amount(row, col))
    /\ Amount(row, col).v % criteria.rounded_threshold = 0

RoundedIffExactMultiple ==
    (RunCompleted /\ criteria.rounded_var /\ criteria.rounded_threshold > 0) =>
        \A row \in Records(processed_df) :
            Listed(2, row) <=> \E col \in AmountCols : ExactMultiple(row, col)

(* C12: a record is in '99999 Pattern' (is_99999 of its debit or credit    *)
(* amount is true) exactly when the fractional part of that amount lies in *)
(* [0.999, 1.0); 1000.50 is not flagged, and some amount is flagged.       *)
FractionalPart(v) == Abs(v) % Milli

EndsInNines(row, col) ==
    /\ IsNum(Amount(row, col))
    /\ FractionalPart(Amount(row, col).v) >= 999
    /\ FractionalPart(Amount(row, col).v) < Milli

NinePatternIffFraction ==
    (RunCompleted /\ criteria.nine_pattern_var) =>
        \A row \in Records(processed_df) :
            /\ is_99999(Amount(row, "Debit Amount (Dr)"))
                  <=> EndsInNines(row, "Debit Amount (Dr)")
            /\ Listed(6, row) <=> \E col \in AmountCols : EndsInNines(row, col)

(* C13: with the weekend/holiday rule enabled a record is flagged iff its  *)
(* date is a Saturday or a Sunday or is in the configured holiday list; a  *)
(* weekend date is flagged also when the holiday list is empty.            *)
IsWeekend(day) == day % 7 = 0 \/ day % 7 = 6

WeekendOrHolidayFlagged ==
    (RunCompleted /\ criteria.public_holidays_var) =>
        \A row \in Records(processed_df) :
            Listed(1, row) <=>
               /\ IsNum(Amount(row, "Date"))
               /\ \/ IsWeekend(Amount(row, "Date").v)
                  \/ Amount(row, "Date").v \in Range(criteria.public_holidays)

-----------------------------------------------------------------------------
(* The offset matcher's scan, one row per step                             *)

MaxScanRows == 3

OffsetRowKinds ==
    [side : {"debit", "credit"}, account : OffsetAccounts, amount : OffsetAmounts]

\* the rows are three days apart; the third row has no date
ScanDate(i) == IF i = 3 THEN NaN ELSE Num(3 * (i - 1))

OffsetFiles ==
    { [i \in 1..Len(kinds) |->
          OffsetRow(kinds[i].side, kinds[i].account, kinds[i].amount, ScanDate(i))] :
      kinds \in SeqsUpTo(OffsetRowKinds, MaxScanRows) }

ScanRow ==
    /\ ~offset_scan.done
    /\ offset_scan.pos <= Len(offset_scan.rows)
    /\ \E s \in {[Session EXCEPT !.offset_scan = scan_row(@)]} : Become(s)

FinishScan ==
    /\ ~offset_scan.done
    /\ offset_scan.pos > Len(offset_scan.rows)
    /\ \E s \in {[Session EXCEPT !.offset_scan = finish_scan(@)]} : Become(s)

InitOffset ==
    \E rows \in OffsetFiles :
        \E s \in {[InitialSession(TRUE) EXCEPT !.offset_scan = start_scan(rows)]} :
            StartIn(s)

NextOffset == ScanRow \/ FinishScan

SpecOffset == InitOffset /\ [][NextOffset]_vars

(* C14: scanning in input order with one pending slot per (account,        *)
(* amount) key and side, a debit row consumes the pending credit of its    *)
(* key (both rows become Matched, the slot is emptied) and otherwise is    *)
(* stored as pending, symmetrically for credits; of two pending debits of  *)
(* one key followed by one credit of that key exactly the later debit is   *)
(* Matched with the credit and the earlier ends Unmatched; every row still *)
(* pending at the end of the scan is Unmatched.                            *)
ScanRows == offset_scan.rows

PendingIn(m, side) == IF side = "debit" THEN m.pending_debits ELSE m.pending_credits

PendingOf(side) == PendingIn(offset_scan, side)

OtherSide(side) == IF side = "debit" THEN "credit" ELSE "debit"

InSomeMatch(i) ==
    \E n \in 1..Len(offset_scan.matches) :
        offset_scan.matches[n].debit = i \/ offset_scan.matches[n].credit = i

Paired(d, c) ==
    \E n \in 1..Len(offset_scan.matches) :
        offset_scan.matches[n].debit = d /\ offset_scan.matches[n].credit = c

SameKeyBetween(i, k) ==
    {n \in (i + 1)..(k - 1) : KeyOf(ScanRows[n]) = KeyOf(ScanRows[i])}

\* rows i < j of one side and one key, both pending when row k of the other
\* side and the same key arrives
TwoPendingThenOpposite(i, j, k) ==
    /\ i < j /\ j < k
    /\ KeyOf(ScanRows[j]) = KeyOf(ScanRows[i])
    /\ KeyOf(ScanRows[k]) = KeyOf(ScanRows[i])
    /\ ScanRows[j].side = ScanRows[i].side
    /\ ScanRows[k].side = OtherSide(ScanRows[i].side)
    /\ SameKeyBetween(i, k) = {j}
    /\ ~\E h \in 1..(i - 1) : Paired(h, i) \/ Paired(i, h)

ScanOutcome ==
    LET n == Len(ScanRows)
    IN /\ \A i \in 1..n : offset_scan.status[i] \in {"Matched", "Unmatched"}
       /\ \A i \in 1..n : offset_scan.status[i] = "Matched" <=> InSomeMatch(i)
       /\ \A key \in OffsetKeys : \A side \in {"debit", "credit"} :
             PendingOf(side)[key] # 0 =>
                offset_scan.status[PendingOf(side)[key]] = "Unmatched"
       /\ \A i, j, k \in 1..n :
             TwoPendingThenOpposite(i, j, k) =>
                /\ offset_scan.status[i] = "Unmatched"
                /\ offset_scan.status[j] = "Matched"
                /\ IF ScanRows[i].side = "debit" THEN Paired(j, k) ELSE Paired(k, j)

ScanStepLaw ==
    (~offset_scan.done /\ offset_scan.pos <= Len(ScanRows)) =>
        LET i == offset_scan.pos
            side == ScanRows[i].side
            key == KeyOf(ScanRows[i])
            j == PendingOf(OtherSide(side))[key]
        IN IF j # 0
           THEN /\ offset_scan'.status[i] = "Matched"
                /\ offset_scan'.status[j] = "Matched"
                /\ PendingIn(offset_scan', OtherSide(side))[key] = 0
                /\ PendingIn(offset_scan', side) = PendingOf(side)
                /\ Len(offset_scan'.matches) = Len(offset_scan.matches) + 1
           ELSE /\ offset_scan'.status[i] = "Pending"
                /\ PendingIn(offset_scan', side)[key] = i
                /\ PendingIn(offset_scan', OtherSide(side)) = PendingOf(OtherSide(side))
                /\ offset_scan'.matches = offset_scan.matches

OffsetMatcherLaw ==
    [][ ScanStepLaw /\ (offset_scan'.done => ScanOutcome') ]_vars

\* the scan of two debits of 500 in account A and then a credit of 500 in A
\* has ended: the second debit is matched with the credit, the first is not
OverwrittenDebitWitness ==
    /\ offset_scan.done
    /\ Len(ScanRows) = 3
    /\ \A i \in 1..3 : KeyOf(ScanRows[i]) = <<"A", 500 * Milli>>
    /\ ScanRows[1].side = "debit" /\ ScanRows[2].side = "debit"
    /\ ScanRows[3].side = "credit"
    /\ offset_scan.status = <<"Unmatched", "Matched", "Matched">>
    /\ Paired(2, 3)

-----------------------------------------------------------------------------
(* C15: every run of perform_high_risk_test that passes the gate           *)
(* recomputes the bundle from scratch: afterwards flagged_entries_by_      *)
(* category has a key only for rules enabled (and not skipped) in this     *)
(* run, and neither it nor high_risk_entries holds a category or a row of  *)
(* an earlier run on other criteria or another dataset.                    *)
ProducedByRule(i, entries) ==
    /\ RuleEnabled(i) /\ ~SkippedForConfig(i)
    /\ Records(entries) \subseteq Records(processed_df)
    /\ \A row \in Records(entries) : Matches(i, row)

BundleIsOfThisRun ==
    /\ \A n \in 1..Len(flagged_entries_by_category) :
          \E i \in RuleIds :
             /\ flagged_entries_by_category[n].category = CategoryOf(i)
             /\ ProducedByRule(i, flagged_entries_by_category[n].entries)
    /\ Records(high_risk_entries)
          \subseteq UNION {Records(EntriesOf(c)) : c \in Categories}

RunRecomputesBundle ==
    [][ (completeness_check_passed /\ RunHighRiskTest) => BundleIsOfThisRun' ]_vars

(* C16: the gate refers to the data currently loaded: while                *)
(* completeness_check_passed is true, processed_df and trial_balance are   *)
(* the ones the last passing check was computed on; a step that replaces   *)
(* the ledger (Confirm Mapping after an upload) or the trial balance (an   *)
(* upload) resets the flag, so no rule runs on data that has not passed.   *)
DataReplaced == processed_df' # processed_df \/ trial_balance' # trial_balance

GateFollowsData ==
    [][ (completeness_check_passed /\ DataReplaced) => ~completeness_check_passed' ]_vars

-----------------------------------------------------------------------------
(* Export (main_app offers it, export_pdf_report writes the conclusion)    *)

\* the export buttons are drawn
ExportOffered == ~high_risk_entries.none /\ ~Empty(high_risk_entries)

\* export_pdf_report reads completeness_check_results["Discrepancy"] when the
\* flag is false: a TypeError if there is no result
export_reads_missing_results(s) ==
    ~s.completeness_check_passed /\ s.completeness_check_results.none

(* C17: whenever export is offered (high_risk_entries is not None and not  *)
(* empty), completeness_check_results is not None, so export_pdf_report    *)
(* never reads a missing reconciliation result, whatever checks, runs and  *)
(* re-imports came before.                                                 *)
ExportHasReconciliation ==
    ExportOffered =>
        /\ ~completeness_check_results.none
        /\ ~export_reads_missing_results(Session)

\* export is on offer while the flag is false: the report reads the result
\* of the failed check
ExportAfterFailedCheckWitness ==
    /\ ExportOffered
    /\ ~completeness_check_passed
    /\ ~completeness_check_results.none
    /\ \E i \in 1..Len(ReconRows) : ~WithinFive(i)
=============================================================================
